---- MODULE Spec2Model ----
(***************************************************************************)
(* Buffer pool of BusTub: BufferPoolManagerInstance, LRUKReplacer and      *)
(* ExtendibleHashTable, modelled from the C++ sources.                     *)
(***************************************************************************)
EXTENDS Integers, Sequences, FiniteSets, TLC

\* ------------------------------------------------------------------------
\* Bounds of the model
\* ------------------------------------------------------------------------
\* pool_size of the buffer pool that is checked
PoolSize == 1
\* number of page ids new_page may hand out
MaxPages == 2
\* cap of a frame's pin_count_ (fetch hits are unbounded in the code)
MaxPin == 2
\* payloads a caller may write are 1..MaxData; 0 is the zeroed buffer
MaxData == 1
\* number of payload writes of the callers in one run
MaxWrites == 1
\* bucket capacity of the page table
BucketSize == 1
\* k of the replacer
ReplacerK == 2
\* number of frames of the replacer that is checked on its own
NumFrames == 2
\* cap of ticks_ of the replacer that is checked on its own
MaxClock == 5
\* cap of ticks_ of the replacer of the pool with one frame more
MaxTicks == 3
\* keys of the hash table that is checked on its own are 0..MaxKey
MaxKey == 2
\* values stored in it are 0..MaxValue
MaxValue == 1
\* its bucket_size is any of 1..MaxBucketSize
MaxBucketSize == 2
\* cap of its global_depth_ (an insert that never returns doubles for ever)
MaxDepth == 3
\* number of threads that call the hash table at the same time
NumThreads == 2

INVALID_PAGE_ID == -1
INT32_MAX == 2147483647

Frames == 0 .. (PoolSize - 1)
PageIds == 0 .. (MaxPages - 1)
Payloads == 0 .. MaxData

NoFrame == -1
NoData == -1
Keys == 0 .. MaxKey
Values == 0 .. MaxValue
\* Bucket::Find leaves `value` as it was when the key is absent
NoValue == NoFrame
Threads == 1 .. NumThreads
\* the owner of a mutex nobody holds
NoThread == 0

RECURSIVE Pow2(_)
Pow2(n) == IF n = 0 THEN 1 ELSE 2 * Pow2(n - 1)

Max(S) == CHOOSE x \in S : \A y \in S : y <= x

\* ------------------------------------------------------------------------
\* ExtendibleHashTable<K, V>
\*   a table is [global_depth_, num_buckets_, dir_, buckets]; dir_ is the
\*   vector of shared_ptr<Bucket> (slot i is dir_[i + 1]), a pointer is a
\*   key of buckets, a bucket is [depth_, list_] and list_ a sequence of
\*   <<key, value>> pairs.
\* ------------------------------------------------------------------------
NewTable ==
  [global_depth_ |-> 0, num_buckets_ |-> 1, dir_ |-> <<1>>,
   buckets |-> (1 :> [depth_ |-> 0, list_ |-> <<>>])]

\* std::hash<int> is the identity; the low bits of the two's complement
\* value are taken with the floored % and \div of TLA+
Hash(key) == key

IndexOf(t, key) == Hash(key) % Pow2(t.global_depth_)

BucketAt(t, index) == t.buckets[t.dir_[index + 1]]

GetLocalDepthInternal(t, index) == BucketAt(t, index).depth_

IsFull(b, size_) == Len(b.list_) = size_

\* position of key in list_, 0 when absent
RECURSIVE PosFrom(_, _, _)
PosFrom(list, key, i) ==
  IF i > Len(list) THEN 0
  ELSE IF list[i][1] = key THEN i
  ELSE PosFrom(list, key, i + 1)

Bucket_Find(b, key) ==
  LET i == PosFrom(b.list_, key, 1)
  IN  IF i = 0 THEN [found |-> FALSE, value |-> NoFrame]
      ELSE [found |-> TRUE, value |-> b.list_[i][2]]

\* variant: Bucket::Remove erasing the first entry, whatever its key
Bucket_Remove_First(b, key) ==
  IF b.list_ = <<>> THEN [ok |-> FALSE, b |-> b]
  ELSE [ok |-> TRUE, b |-> [b EXCEPT !.list_ = Tail(b.list_)]]

Bucket_Remove(b, key) ==
  LET i == PosFrom(b.list_, key, 1)
  IN  IF i = 0 THEN [ok |-> FALSE, b |-> b]
      ELSE [ok |-> TRUE,
            b |-> [b EXCEPT !.list_ =
                     SubSeq(b.list_, 1, i - 1) \o SubSeq(b.list_, i + 1, Len(b.list_))]]

\* variant: Bucket::Insert without the search for the key
Bucket_Insert_Append(b, key, value) ==
  [b EXCEPT !.list_ = Append(b.list_, <<key, value>>)]

Bucket_Insert(b, key, value) ==
  LET i == PosFrom(b.list_, key, 1)
  IN  IF i # 0 THEN [b EXCEPT !.list_[i] = <<key, value>>]
      ELSE [b EXCEPT !.list_ = Append(b.list_, <<key, value>>)]

EHT_Find(t, key) == Bucket_Find(BucketAt(t, IndexOf(t, key)), key)

EHT_Remove(t, key) ==
  LET p == t.dir_[IndexOf(t, key) + 1]
      r == Bucket_Remove(t.buckets[p], key)
  IN  [ok |-> r.ok, t |-> [t EXCEPT !.buckets[p] = r.b]]

GrowGlobal(t) ==
  [t EXCEPT !.dir_ = t.dir_ \o t.dir_, !.global_depth_ = t.global_depth_ + 1]

\* the entries of list from position i on whose hash has bit `mask` set
\* (side = 1) or clear (side = 0), in order
RECURSIVE Partition(_, _, _, _)
Partition(list, mask, side, i) ==
  IF i > Len(list) THEN <<>>
  ELSE IF (Hash(list[i][1]) \div mask) % 2 = side
       THEN <<list[i]>> \o Partition(list, mask, side, i + 1)
       ELSE Partition(list, mask, side, i + 1)

\* variant: the loop over the slots starts at index, not at index & (mask - 1)
GrowLocal_FromIndex(t, index) ==
  LET bucket == BucketAt(t, index)
      local_depth == bucket.depth_
      mask == Pow2(local_depth)
      new_ptr == Max(DOMAIN t.buckets) + 1
      old_ptr == Max(DOMAIN t.buckets) + 2
      new_bucket == [depth_ |-> local_depth + 1,
                     list_ |-> Partition(bucket.list_, mask, 1, 1)]
      old_bucket == [depth_ |-> local_depth + 1,
                     list_ |-> Partition(bucket.list_, mask, 0, 1)]
      dir2 == [s \in 1 .. Len(t.dir_) |->
                 IF s - 1 >= index /\ (s - 1 - index) % mask = 0
                 THEN IF ((s - 1) \div mask) % 2 = 1 THEN new_ptr ELSE old_ptr
                 ELSE t.dir_[s]]
      all == (new_ptr :> new_bucket) @@ (old_ptr :> old_bucket) @@ t.buckets
      live == {dir2[s] : s \in 1 .. Len(dir2)}
  IN  [t EXCEPT !.dir_ = dir2,
                !.buckets = [p \in live |-> all[p]],
                !.num_buckets_ = t.num_buckets_ + 1]

GrowLocal(t, index) ==
  LET bucket == BucketAt(t, index)
      local_depth == bucket.depth_
      mask == Pow2(local_depth)
      new_ptr == Max(DOMAIN t.buckets) + 1
      old_ptr == Max(DOMAIN t.buckets) + 2
      new_bucket == [depth_ |-> local_depth + 1,
                     list_ |-> Partition(bucket.list_, mask, 1, 1)]
      old_bucket == [depth_ |-> local_depth + 1,
                     list_ |-> Partition(bucket.list_, mask, 0, 1)]
      start == index % mask
      dir2 == [s \in 1 .. Len(t.dir_) |->
                 IF (s - 1) % mask = start
                 THEN IF ((s - 1) \div mask) % 2 = 1 THEN new_ptr ELSE old_ptr
                 ELSE t.dir_[s]]
      all == (new_ptr :> new_bucket) @@ (old_ptr :> old_bucket) @@ t.buckets
      \* a bucket no slot refers to any more is released by its shared_ptr
      live == {dir2[s] : s \in 1 .. Len(dir2)}
  IN  [t EXCEPT !.dir_ = dir2,
                !.buckets = [p \in live |-> all[p]],
                !.num_buckets_ = t.num_buckets_ + 1]

\* one execution of the body of Insert up to its recursive call:
\* again = TRUE when the body ends in the recursive call
InsertBody(t, key, value, size_) ==
  LET index == IndexOf(t, key)
      p == t.dir_[index + 1]
  IN  IF ~IsFull(t.buckets[p], size_)
      THEN [again |-> FALSE,
            t |-> [t EXCEPT !.buckets[p] = Bucket_Insert(t.buckets[p], key, value)]]
      ELSE LET t1 == IF GetLocalDepthInternal(t, index) = t.global_depth_
                     THEN GrowGlobal(t) ELSE t
               index1 == IndexOf(t1, key)
           IN  IF GetLocalDepthInternal(t1, index1) >= t1.global_depth_
               THEN [again |-> FALSE, t |-> t1]
               ELSE [again |-> TRUE, t |-> GrowLocal(t1, index1)]

RECURSIVE EHT_Insert(_, _, _, _)
EHT_Insert(t, key, value, size_) ==
  LET r == InsertBody(t, key, value, size_)
  IN  IF r.again THEN EHT_Insert(r.t, key, value, size_) ELSE r.t

\* ------------------------------------------------------------------------
\* LRUKReplacer
\*   a replacer is [frameinfo_list_, frameinfo_map_, curr_size_, ticks_,
\*   replacer_size_, k_]; frameinfo_map_ maps a known frame id to its FrameInfo
\*   [evictable_, k_accesstime_list_] and frameinfo_list_ is the list of
\*   the same FrameInfo objects, given by their frame ids.
\* ------------------------------------------------------------------------
NewReplacer(num_frames, k) ==
  [frameinfo_list_ |-> <<>>, frameinfo_map_ |-> <<>>, curr_size_ |-> 0,
   ticks_ |-> 0, replacer_size_ |-> num_frames, k_ |-> k]

\* BUSTUB_ASSERT(size_t(frame_id) <= replacer_size_, "frame_id invalid!!!")
FrameIdAsserts(r, frame_id) == ~(frame_id <= r.replacer_size_)

Known(r, frame_id) == frame_id \in DOMAIN r.frameinfo_map_

GetHistory(r, frame_id) == r.frameinfo_map_[frame_id].k_accesstime_list_

GetEvictable(r, frame_id) == r.frameinfo_map_[frame_id].evictable_

\* the sequence without its elements equal to x
RECURSIVE Erase(_, _)
Erase(list, x) ==
  IF list = <<>> THEN <<>>
  ELSE IF Head(list) = x THEN Erase(Tail(list), x)
  ELSE <<Head(list)>> \o Erase(Tail(list), x)

\* the function f without the key x
Without(f, x) == [y \in (DOMAIN f) \ {x} |-> f[y]]

\* variant: a history shorter than k is given its span, not +infinity
KDistance_NoInfinity(r, frame_id) ==
  IF ~Known(r, frame_id) THEN -1
  ELSE LET h == GetHistory(r, frame_id) IN h[Len(h)] - h[1]

KDistance(r, frame_id) ==
  IF ~Known(r, frame_id) THEN -1
  ELSE IF Len(GetHistory(r, frame_id)) < r.k_ THEN INT32_MAX
  ELSE LET h == GetHistory(r, frame_id) IN h[Len(h)] - h[1]

\* the loop of Evict: `i` is the position of iter, `evict_iter` the position
\* of the candidate (0 for end()) and k_distance its distance
RECURSIVE EvictScan(_, _, _, _)
EvictScan(r, i, evict_iter, k_distance) ==
  IF i > Len(r.frameinfo_list_) THEN evict_iter
  ELSE LET f == r.frameinfo_list_[i]
           kdis == KDistance(r, f)
       IN  IF ~GetEvictable(r, f) THEN EvictScan(r, i + 1, evict_iter, k_distance)
           ELSE IF kdis = -1 THEN EvictScan(r, i + 1, evict_iter, k_distance)
           ELSE IF \/ evict_iter = 0
                   \/ kdis > k_distance
                   \/ /\ kdis = k_distance
                      /\ GetHistory(r, f)[1] <
                           GetHistory(r, r.frameinfo_list_[evict_iter])[1]
                THEN EvictScan(r, i + 1, i, kdis)
                ELSE EvictScan(r, i + 1, evict_iter, k_distance)

\* Evict: ok = FALSE is the `return false`; otherwise frame_id is the victim
LRUK_Evict(r) ==
  IF r.curr_size_ = 0 THEN [ok |-> FALSE, frame_id |-> NoFrame, r |-> r]
  ELSE LET evict_iter == EvictScan(r, 1, 0, 0)
           frame_id == r.frameinfo_list_[evict_iter]
       IN  [ok |-> TRUE, frame_id |-> frame_id,
            r |-> [r EXCEPT !.frameinfo_list_ = Erase(r.frameinfo_list_, frame_id),
                            !.frameinfo_map_ = Without(r.frameinfo_map_, frame_id),
                            !.curr_size_ = r.curr_size_ - 1]]

\* Evict with curr_size_ > 0 and no evictable frame dereferences end()
EvictUndefined(r) == r.curr_size_ # 0 /\ EvictScan(r, 1, 0, 0) = 0

LRUK_RecordAccess(r, frame_id) ==
  IF Known(r, frame_id)
  THEN LET h == GetHistory(r, frame_id)
           h1 == IF Len(h) = r.k_ THEN Tail(h) ELSE h
       IN  [r EXCEPT !.frameinfo_map_[frame_id].k_accesstime_list_ =
                         Append(h1, r.ticks_),
                     !.ticks_ = r.ticks_ + 1,
                     !.frameinfo_list_ =
                         Append(Erase(r.frameinfo_list_, frame_id), frame_id)]
  \* std::make_shared<FrameInfo>() value-initialises: evictable_ is false
  ELSE [r EXCEPT !.frameinfo_map_ =
                     (frame_id :> [evictable_ |-> FALSE,
                                   k_accesstime_list_ |-> <<r.ticks_>>])
                     @@ r.frameinfo_map_,
                 !.ticks_ = r.ticks_ + 1,
                 !.frameinfo_list_ = Append(r.frameinfo_list_, frame_id)]

\* BUSTUB_ASSERT(iter != frameinfo_map_.end(), "frame id not found!!!")
SetEvictableAsserts(r, frame_id) ==
  FrameIdAsserts(r, frame_id) \/ ~Known(r, frame_id)

\* variant: curr_size_ follows the request, not the transition of the flag
LRUK_SetEvictable_NoTransition(r, frame_id, set_evictable) ==
  [r EXCEPT !.frameinfo_map_[frame_id].evictable_ = set_evictable,
            !.curr_size_ = IF set_evictable THEN r.curr_size_ + 1
                           ELSE r.curr_size_ - 1]

LRUK_SetEvictable(r, frame_id, set_evictable) ==
  IF GetEvictable(r, frame_id) /\ ~set_evictable
  THEN [r EXCEPT !.frameinfo_map_[frame_id].evictable_ = set_evictable,
                 !.curr_size_ = r.curr_size_ - 1]
  ELSE IF ~GetEvictable(r, frame_id) /\ set_evictable
  THEN [r EXCEPT !.frameinfo_map_[frame_id].evictable_ = set_evictable,
                 !.curr_size_ = r.curr_size_ + 1]
  ELSE r

\* BUSTUB_ASSERT(iter->second->GetEvictable(), "the frame not evictable!!!")
RemoveAsserts(r, frame_id) ==
  \/ FrameIdAsserts(r, frame_id)
  \/ Known(r, frame_id) /\ ~GetEvictable(r, frame_id)

LRUK_Remove(r, frame_id) ==
  IF ~Known(r, frame_id) THEN r
  ELSE [r EXCEPT !.frameinfo_list_ = Erase(r.frameinfo_list_, frame_id),
                 !.frameinfo_map_ = Without(r.frameinfo_map_, frame_id),
                 !.curr_size_ = r.curr_size_ - 1]

LRUK_Size(r) == r.curr_size_

\* ------------------------------------------------------------------------
\* BufferPoolManagerInstance
\* ------------------------------------------------------------------------
VARIABLES
  pages_,         \* frame id -> [page_id_, pin_count_, is_dirty_, data_]
  page_table_,    \* ExtendibleHashTable<page_id_t, frame_id_t>
  replacer_,      \* LRUKReplacer
  free_list_,     \* std::list<frame_id_t>
  next_page_id_,  \* the page id allocator
  disk,           \* disk_manager_: page id -> payload
  aborted,        \* the process died in a BUSTUB_ASSERT
  flushing,       \* the thread inside FlushPgImp, between Find and WritePage
  last,           \* the last call and its result
  pending,        \* page id -> payload written by a caller, not yet unpinned dirty
  committed,      \* page id -> payload written and then unpinned with dirty = true
  handed,         \* the page ids returned by successful new_page calls, in order
  writes,         \* the number of payload writes of the callers so far
  deleted,        \* the page ids a delete_page call returned true for
  eht,            \* an ExtendibleHashTable<int, int> used on its own
  bucket_size_,   \* its bucket_size_
  inserting,      \* the Insert call that is between two of its rounds
  kv,             \* key -> value: the map the calls made so far describe
  latch_,         \* the std::mutex of the hash table: the thread that holds it
  thread,         \* thread -> where it is inside Find, Remove or Insert
  released,       \* the last latch_.unlock(): who called it, who held latch_
  wrote           \* the WritePage of the last call: page id and payload

vars == <<pages_, page_table_, replacer_, free_list_, next_page_id_, disk,
          aborted, flushing, last, pending, committed, handed, writes,
          deleted, eht, bucket_size_, inserting, kv, latch_, thread,
          released, wrote>>

poolVars == <<pages_, page_table_, replacer_, free_list_, next_page_id_, disk>>

ghostVars == <<pending, committed, handed, writes, deleted>>

latchVars == <<latch_, thread, released>>

tableVars == <<eht, bucket_size_, inserting, kv, latchVars>>

NoInsert == [key |-> NoValue, value |-> NoValue]

\* a thread outside the hash table: no scoped_lock of its own is alive
IdleThread == [pc |-> "idle", key |-> NoValue, value |-> NoValue, locks |-> 0]

NoRelease == [by |-> NoThread, owner |-> NoThread]

NoFlush == [page_id |-> INVALID_PAGE_ID, frame_id |-> NoFrame]

NoWrite == [page_id |-> INVALID_PAGE_ID, data |-> NoData]

Call(op, page_id, is_dirty, ret, frame_id) ==
  [op |-> op, page_id |-> page_id, is_dirty |-> is_dirty, ret |-> ret,
   frame_id |-> frame_id]

\* Page::Page(): an empty frame
EmptyPage ==
  [page_id_ |-> INVALID_PAGE_ID, pin_count_ |-> 0, is_dirty_ |-> FALSE, data_ |-> 0]

\* the free list of the constructor: 0, 1, ..., pool_size - 1
InitFreeList(pool_size) == [i \in 1 .. pool_size |-> i - 1]

\* the constructor for a pool of pool_size frames whose callers use the page
\* ids of page_ids
InitPool(pool_size, page_ids) ==
  /\ pages_ = [f \in 0 .. (pool_size - 1) |-> EmptyPage]
  /\ page_table_ = NewTable
  /\ free_list_ = InitFreeList(pool_size)
  /\ next_page_id_ = 0
  /\ disk = [p \in page_ids \cup {INVALID_PAGE_ID} |-> 0]
  /\ aborted = FALSE
  /\ flushing = NoFlush
  /\ last = Call("init", INVALID_PAGE_ID, FALSE, "none", NoFrame)
  /\ pending = [p \in page_ids |-> NoData]
  /\ committed = [p \in page_ids |-> NoData]
  /\ handed = <<>>
  /\ writes = 0
  /\ deleted = {}
  /\ wrote = NoWrite

InitCommon == InitPool(PoolSize, PageIds)

\* the hash table on its own, before any call
InitTable(size_) ==
  /\ eht = NewTable
  /\ bucket_size_ = size_
  /\ inserting = NoInsert
  /\ kv = [k \in Keys |-> NoValue]
  /\ latch_ = NoThread
  /\ thread = [t \in Threads |-> IdleThread]
  /\ released = NoRelease

Init ==
  /\ InitCommon
  /\ InitTable(BucketSize)
  /\ replacer_ = NewReplacer(PoolSize, ReplacerK)

\* AllocatePage with a pre-increment, ++next_page_id_
AllocatePage_PreIncrement(next) == [page_id |-> next + 1, next |-> next + 1]

\* AllocatePage: the id returned and the allocator afterwards
AllocatePage(next) == [page_id |-> next, next |-> next + 1]

\* variant: the WritePage without the test of IsDirty()
DiskWrite_Unconditional(pg) == [page_id |-> pg.page_id_, data |-> pg.data_]

\* the WritePage NewPgImp and FetchPgImp make for the frame they re-use:
\* none when the frame is not dirty
DiskWrite(pg) ==
  IF pg.is_dirty_ THEN [page_id |-> pg.page_id_, data |-> pg.data_] ELSE NoWrite

\* the disk after that WritePage
WriteBack(d, pg) ==
  LET w == DiskWrite(pg)
  IN  IF w = NoWrite THEN d ELSE [d EXCEPT ![w.page_id] = w.data]

\* replacer_->RecordAccess(frame_id); replacer_->SetEvictable(frame_id, false)
Touch(r, frame_id) ==
  LRUK_SetEvictable(LRUK_RecordAccess(r, frame_id), frame_id, FALSE)

\* NewPgImp asking the replacer without looking at the free list
NewAcquire_NoFreeList ==
  LET e == LRUK_Evict(replacer_)
  IN  [ok |-> e.ok, frame_id |-> e.frame_id, free |-> free_list_, r |-> e.r]

\* the frame NewPgImp works on: the head of the free list, else the victim
\* of the replacer
NewAcquire ==
  IF free_list_ # <<>>
  THEN [ok |-> TRUE, frame_id |-> Head(free_list_), free |-> Tail(free_list_),
        r |-> replacer_]
  ELSE LET e == LRUK_Evict(replacer_)
       IN  [ok |-> e.ok, frame_id |-> e.frame_id, free |-> free_list_, r |-> e.r]

NewPgImp ==
  /\ ~aborted
  /\ UNCHANGED tableVars
  /\ UNCHANGED <<aborted, flushing, pending, committed, writes, deleted>>
  /\ LET a == NewAcquire
     IN  IF ~a.ok
         THEN /\ last' = Call("new", INVALID_PAGE_ID, FALSE, "nullptr", NoFrame)
              /\ wrote' = NoWrite
              /\ UNCHANGED <<poolVars, handed>>
         ELSE LET frame_id == a.frame_id
                  pg == pages_[frame_id]
                  al == AllocatePage(next_page_id_)
                  pt1 == EHT_Remove(page_table_, pg.page_id_).t
              IN  /\ disk' = WriteBack(disk, pg)
                  /\ wrote' = DiskWrite(pg)
                  /\ next_page_id_' = al.next
                  /\ page_table_' = EHT_Insert(pt1, al.page_id, frame_id, BucketSize)
                  /\ pages_' = [pages_ EXCEPT ![frame_id] =
                                  [page_id_ |-> al.page_id, pin_count_ |-> 1,
                                   is_dirty_ |-> FALSE, data_ |-> 0]]
                  /\ replacer_' = Touch(a.r, frame_id)
                  /\ free_list_' = a.free
                  /\ handed' = Append(handed, al.page_id)
                  /\ last' = Call("new", al.page_id, FALSE, "page", frame_id)

\* new_page is called until MaxPages page ids are handed out
NewPage ==
  /\ next_page_id_ < MaxPages
  /\ NewPgImp

\* the frame the miss path of FetchPgImp works on
FetchAcquire ==
  LET e == LRUK_Evict(replacer_)
  IN  [ok |-> e.ok, frame_id |-> e.frame_id, free |-> free_list_, r |-> e.r]

\* the callers pass page ids that new_page handed out
Allocated(page_id) == page_id < next_page_id_

\* fetch_page is called for the ids of existing pages
FetchPage(page_id) ==
  /\ ~aborted
  /\ UNCHANGED tableVars
  /\ Allocated(page_id)
  /\ page_id \notin deleted
  /\ UNCHANGED <<aborted, flushing, ghostVars, next_page_id_>>
  /\ LET fnd == EHT_Find(page_table_, page_id)
     IN  IF fnd.found
         THEN /\ pages_[fnd.value].pin_count_ < MaxPin
              /\ pages_' = [pages_ EXCEPT ![fnd.value].pin_count_ = @ + 1]
              /\ last' = Call("fetch", page_id, FALSE, "page", fnd.value)
              /\ wrote' = NoWrite
              /\ UNCHANGED <<page_table_, replacer_, free_list_, disk>>
         ELSE LET a == FetchAcquire
              IN  IF ~a.ok
                  THEN /\ last' = Call("fetch", page_id, FALSE, "nullptr", NoFrame)
                       /\ wrote' = NoWrite
                       /\ UNCHANGED <<pages_, page_table_, replacer_, free_list_, disk>>
                  ELSE LET frame_id == a.frame_id
                           d1 == WriteBack(disk, pages_[frame_id])
                       IN  /\ disk' = d1
                           /\ wrote' = DiskWrite(pages_[frame_id])
                           /\ pages_' = [pages_ EXCEPT ![frame_id] =
                                           [page_id_ |-> page_id, pin_count_ |-> 1,
                                            is_dirty_ |-> FALSE, data_ |-> d1[page_id]]]
                           /\ replacer_' = Touch(a.r, frame_id)
                           /\ page_table_' =
                                EHT_Insert(page_table_, page_id, frame_id, BucketSize)
                           /\ free_list_' = a.free
                           /\ last' = Call("fetch", page_id, FALSE, "page", frame_id)

\* the early return of UnpinPgImp
UnpinRejects(fnd) == ~fnd.found \/ pages_[fnd.value].pin_count_ <= 0

\* the dirty flag after UnpinPgImp
UnpinDirty(was_dirty, is_dirty) == IF is_dirty THEN is_dirty ELSE was_dirty

UnpinPage(page_id, is_dirty) ==
  /\ ~aborted
  /\ UNCHANGED tableVars
  /\ wrote' = NoWrite
  /\ Allocated(page_id)
  /\ UNCHANGED <<flushing, handed, writes, deleted, page_table_, free_list_,
                 next_page_id_, disk>>
  /\ LET fnd == EHT_Find(page_table_, page_id)
     IN  IF UnpinRejects(fnd)
         THEN /\ last' = Call("unpin", page_id, is_dirty, "false", NoFrame)
              /\ UNCHANGED <<pages_, replacer_, aborted, pending, committed>>
         ELSE LET frame_id == fnd.value
                  pg == pages_[frame_id]
                  pin == pg.pin_count_ - 1
              IN  /\ pages_' = [pages_ EXCEPT ![frame_id] =
                                  [pg EXCEPT !.is_dirty_ = UnpinDirty(pg.is_dirty_, is_dirty),
                                             !.pin_count_ = pin]]
                  /\ IF pin = 0 /\ SetEvictableAsserts(replacer_, frame_id)
                     THEN /\ aborted' = TRUE
                          /\ last' = Call("unpin", page_id, is_dirty, "abort", frame_id)
                          /\ UNCHANGED <<replacer_, pending, committed>>
                     ELSE /\ replacer_' = IF pin = 0
                                          THEN LRUK_SetEvictable(replacer_, frame_id, TRUE)
                                          ELSE replacer_
                          /\ last' = Call("unpin", page_id, is_dirty, "true", frame_id)
                          /\ IF is_dirty /\ pending[page_id] # NoData
                             THEN /\ committed' = [committed EXCEPT ![page_id] = pending[page_id]]
                                  /\ pending' = [pending EXCEPT ![page_id] = NoData]
                             ELSE UNCHANGED <<pending, committed>>
                          /\ UNCHANGED aborted

\* FlushPgImp from its WritePage on, for the frame its Find returned
FlushWriteTo(page_id, frame_id) ==
  /\ disk' = [disk EXCEPT ![page_id] = pages_[frame_id].data_]
  /\ pages_' = [pages_ EXCEPT ![frame_id].is_dirty_ = FALSE]
  /\ wrote' = [page_id |-> page_id, data |-> pages_[frame_id].data_]
  /\ last' = Call("flush", page_id, FALSE, "true", frame_id)

\* FlushPgImp run by a single caller
FlushPage(page_id) ==
  /\ ~aborted
  /\ UNCHANGED tableVars
  /\ Allocated(page_id)
  /\ UNCHANGED <<aborted, flushing, ghostVars, page_table_, replacer_, free_list_,
                 next_page_id_>>
  /\ LET fnd == EHT_Find(page_table_, page_id)
     IN  IF ~fnd.found
         THEN /\ last' = Call("flush", page_id, FALSE, "false", NoFrame)
              /\ wrote' = NoWrite
              /\ UNCHANGED <<pages_, disk>>
         ELSE FlushWriteTo(page_id, fnd.value)

\* DeletePgImp refusing only a page pinned more than once
DeleteRefuses_OffByOne(fnd) == pages_[fnd.value].pin_count_ > 1

\* the `return false` of DeletePgImp
DeleteRefuses(fnd) == pages_[fnd.value].pin_count_ > 0

\* DeletePgImp's reset of the frame
ResetOnDelete(pg) == [pg EXCEPT !.data_ = 0, !.page_id_ = INVALID_PAGE_ID]

DeletePage(page_id) ==
  /\ ~aborted
  /\ UNCHANGED tableVars
  /\ wrote' = NoWrite
  /\ Allocated(page_id)
  /\ UNCHANGED <<flushing, handed, writes, next_page_id_, disk>>
  /\ LET fnd == EHT_Find(page_table_, page_id)
     IN  IF ~fnd.found
         THEN /\ last' = Call("delete", page_id, FALSE, "true", NoFrame)
              /\ deleted' = deleted \cup {page_id}
              /\ UNCHANGED <<pages_, page_table_, replacer_, free_list_, aborted,
                             pending, committed>>
         ELSE IF DeleteRefuses(fnd)
         THEN /\ last' = Call("delete", page_id, FALSE, "false", fnd.value)
              /\ UNCHANGED <<pages_, page_table_, replacer_, free_list_, aborted,
                             pending, committed, deleted>>
         ELSE LET frame_id == fnd.value
              IN  /\ page_table_' = EHT_Remove(page_table_, page_id).t
                  /\ IF RemoveAsserts(replacer_, frame_id)
                     THEN /\ aborted' = TRUE
                          /\ last' = Call("delete", page_id, FALSE, "abort", frame_id)
                          /\ UNCHANGED <<pages_, replacer_, free_list_, pending, committed,
                                         deleted>>
                     ELSE /\ replacer_' = LRUK_Remove(replacer_, frame_id)
                          /\ pages_' = [pages_ EXCEPT ![frame_id] = ResetOnDelete(@)]
                          /\ free_list_' = Append(free_list_, frame_id)
                          /\ pending' = [pending EXCEPT ![page_id] = NoData]
                          /\ committed' = [committed EXCEPT ![page_id] = NoData]
                          /\ deleted' = deleted \cup {page_id}
                          /\ last' = Call("delete", page_id, FALSE, "true", frame_id)
                          /\ UNCHANGED aborted

\* a caller that holds page_id pinned writes the payload b into its buffer
WriteData(page_id, b) ==
  /\ ~aborted
  /\ UNCHANGED tableVars
  /\ wrote' = NoWrite
  /\ writes < MaxWrites
  /\ writes' = writes + 1
  /\ LET fnd == EHT_Find(page_table_, page_id)
     IN  /\ fnd.found
         /\ pages_[fnd.value].page_id_ = page_id
         /\ pages_[fnd.value].pin_count_ > 0
         /\ pages_' = [pages_ EXCEPT ![fnd.value].data_ = b]
         /\ last' = Call("write", page_id, FALSE, "none", fnd.value)
  /\ pending' = [pending EXCEPT ![page_id] = b]
  /\ committed' = [committed EXCEPT ![page_id] = NoData]
  /\ UNCHANGED <<page_table_, replacer_, free_list_, next_page_id_, disk, aborted,
                 flushing, handed, deleted>>

Next ==
  \/ NewPage
  \/ \E p \in PageIds : FetchPage(p)
  \/ \E p \in PageIds, d \in BOOLEAN : UnpinPage(p, d)
  \/ \E p \in PageIds : FlushPage(p)
  \/ \E p \in PageIds : DeletePage(p)

Spec == Init /\ [][Next]_vars

\* the pool with callers that write payloads into the frames they hold
NextData ==
  \/ Next
  \/ \E p \in PageIds, b \in 1 .. MaxData : WriteData(p, b)

SpecData == Init /\ [][NextData]_vars

\* ------------------------------------------------------------------------
\* A pool of PoolSize + 1 frames whose callers use MaxPages + 1 page ids.
\* ticks_ grows with every new_page and every miss of fetch_page: new_page
\* and fetch_page are called until it is MaxTicks.
\* ------------------------------------------------------------------------
WidePageIds == 0 .. MaxPages

InitWide ==
  /\ InitPool(PoolSize + 1, WidePageIds)
  /\ InitTable(BucketSize)
  /\ replacer_ = NewReplacer(PoolSize + 1, ReplacerK)

W_NewPage ==
  /\ replacer_.ticks_ < MaxTicks
  /\ next_page_id_ <= MaxPages
  /\ NewPgImp

W_FetchPage(page_id) ==
  /\ replacer_.ticks_ < MaxTicks
  /\ FetchPage(page_id)

NextWide ==
  \/ W_NewPage
  \/ \E p \in WidePageIds : W_FetchPage(p)
  \/ \E p \in WidePageIds, d \in BOOLEAN : UnpinPage(p, d)
  \/ \E p \in WidePageIds : FlushPage(p)
  \/ \E p \in WidePageIds : DeletePage(p)

SpecWide == InitWide /\ [][NextWide]_vars

\* ------------------------------------------------------------------------
\* FlushPgImp running next to the other operations: it takes no latch_, so
\* the other operations run between its Find and its WritePage
\* ------------------------------------------------------------------------
FlushFind(page_id) ==
  /\ ~aborted
  /\ UNCHANGED tableVars
  /\ wrote' = NoWrite
  /\ Allocated(page_id)
  /\ flushing = NoFlush
  /\ UNCHANGED <<poolVars, aborted, ghostVars>>
  /\ LET fnd == EHT_Find(page_table_, page_id)
     IN  IF ~fnd.found
         THEN /\ last' = Call("flush", page_id, FALSE, "false", NoFrame)
              /\ UNCHANGED flushing
         ELSE /\ flushing' = [page_id |-> page_id, frame_id |-> fnd.value]
              /\ last' = Call("flush_find", page_id, FALSE, "none", fnd.value)

FlushWrite ==
  /\ ~aborted
  /\ UNCHANGED tableVars
  /\ flushing # NoFlush
  /\ FlushWriteTo(flushing.page_id, flushing.frame_id)
  /\ flushing' = NoFlush
  /\ UNCHANGED <<aborted, ghostVars, page_table_, replacer_, free_list_, next_page_id_>>

NextFlush ==
  \/ NewPage
  \/ \E p \in PageIds : FetchPage(p)
  \/ \E p \in PageIds, d \in BOOLEAN : UnpinPage(p, d)
  \/ \E p \in PageIds : DeletePage(p)
  \/ \E p \in PageIds : FlushFind(p)
  \/ FlushWrite

SpecFlush == Init /\ [][NextFlush]_vars

\* ------------------------------------------------------------------------
\* The LRUKReplacer on its own, driven through its public functions
\* ------------------------------------------------------------------------
ReplacerFrames == 0 .. (NumFrames + 1)

InitReplacer ==
  /\ InitCommon
  /\ InitTable(BucketSize)
  /\ replacer_ = NewReplacer(NumFrames, ReplacerK)

ReplacerFrame == <<pages_, page_table_, free_list_, next_page_id_, disk, flushing,
                   ghostVars, tableVars, wrote>>

Abort(op, frame_id) ==
  /\ aborted' = TRUE
  /\ last' = Call(op, INVALID_PAGE_ID, FALSE, "abort", frame_id)
  /\ UNCHANGED replacer_

R_RecordAccess(frame_id) ==
  /\ ~aborted
  /\ replacer_.ticks_ < MaxClock
  /\ UNCHANGED ReplacerFrame
  /\ IF FrameIdAsserts(replacer_, frame_id)
     THEN Abort("record_access", frame_id)
     ELSE /\ replacer_' = LRUK_RecordAccess(replacer_, frame_id)
          /\ last' = Call("record_access", INVALID_PAGE_ID, FALSE, "none", frame_id)
          /\ UNCHANGED aborted

R_SetEvictable(frame_id, set_evictable) ==
  /\ ~aborted
  /\ UNCHANGED ReplacerFrame
  /\ IF SetEvictableAsserts(replacer_, frame_id)
     THEN Abort("set_evictable", frame_id)
     ELSE /\ replacer_' = LRUK_SetEvictable(replacer_, frame_id, set_evictable)
          /\ last' = Call("set_evictable", INVALID_PAGE_ID, set_evictable, "none", frame_id)
          /\ UNCHANGED aborted

R_Evict ==
  /\ ~aborted
  /\ UNCHANGED <<ReplacerFrame, aborted>>
  /\ LET e == LRUK_Evict(replacer_)
     IN  /\ replacer_' = e.r
         /\ last' = Call("evict", INVALID_PAGE_ID, FALSE,
                         IF e.ok THEN "true" ELSE "false", e.frame_id)

R_Remove(frame_id) ==
  /\ ~aborted
  /\ UNCHANGED ReplacerFrame
  /\ IF RemoveAsserts(replacer_, frame_id)
     THEN Abort("remove", frame_id)
     ELSE /\ replacer_' = LRUK_Remove(replacer_, frame_id)
          /\ last' = Call("remove", INVALID_PAGE_ID, FALSE, "none", frame_id)
          /\ UNCHANGED aborted

NextReplacer ==
  \/ \E f \in ReplacerFrames : R_RecordAccess(f)
  \/ \E f \in ReplacerFrames, b \in BOOLEAN : R_SetEvictable(f, b)
  \/ R_Evict
  \/ \E f \in ReplacerFrames : R_Remove(f)

SpecReplacer == InitReplacer /\ [][NextReplacer]_vars

\* ------------------------------------------------------------------------
\* The ExtendibleHashTable on its own, driven by one thread through Find,
\* Remove and Insert. Insert calls itself after a split, and nothing bounds
\* the number of these calls: each execution of its body is one step, and no
\* other call of the thread starts before the last one returned.
\* ------------------------------------------------------------------------
TableFrame == <<poolVars, aborted, flushing, ghostVars, bucket_size_, latchVars,
                wrote>>

TableCall(op, key, value, ret) == Call(op, key, FALSE, ret, value)

InitHashTable ==
  /\ InitCommon
  /\ replacer_ = NewReplacer(PoolSize, ReplacerK)
  /\ \E size_ \in 1 .. MaxBucketSize : InitTable(size_)

\* the body of Insert would call GrowGlobal
RoundGrowsGlobal(t, key, size_) ==
  /\ IsFull(BucketAt(t, IndexOf(t, key)), size_)
  /\ GetLocalDepthInternal(t, IndexOf(t, key)) = t.global_depth_

\* one execution of the body of Insert(key, value)
InsertRound(key, value) ==
  /\ RoundGrowsGlobal(eht, key, bucket_size_) => eht.global_depth_ < MaxDepth
  /\ LET r == InsertBody(eht, key, value, bucket_size_)
     IN  /\ eht' = r.t
         /\ inserting' = IF r.again THEN [key |-> key, value |-> value] ELSE NoInsert
         /\ last' = TableCall("insert", key, value, IF r.again THEN "again" ELSE "none")

HT_Find(key) ==
  /\ inserting = NoInsert
  /\ UNCHANGED <<TableFrame, eht, inserting, kv>>
  /\ LET fnd == EHT_Find(eht, key)
     IN  last' = TableCall("find", key, fnd.value, IF fnd.found THEN "true" ELSE "false")

HT_Remove(key) ==
  /\ inserting = NoInsert
  /\ UNCHANGED <<TableFrame, inserting>>
  /\ LET r == EHT_Remove(eht, key)
     IN  /\ eht' = r.t
         /\ last' = TableCall("remove", key, NoValue, IF r.ok THEN "true" ELSE "false")
  /\ kv' = [kv EXCEPT ![key] = NoValue]

\* the call Insert(key, value) of the thread
HT_Insert(key, value) ==
  /\ inserting = NoInsert
  /\ UNCHANGED TableFrame
  /\ InsertRound(key, value)
  /\ kv' = [kv EXCEPT ![key] = value]

\* the call Insert(key, value) of Insert itself, line 120
HT_InsertAgain ==
  /\ inserting # NoInsert
  /\ UNCHANGED <<TableFrame, kv>>
  /\ InsertRound(inserting.key, inserting.value)

NextTable ==
  \/ \E k \in Keys : HT_Find(k)
  \/ \E k \in Keys : HT_Remove(k)
  \/ \E k \in Keys, v \in Values : HT_Insert(k, v)
  \/ HT_InsertAgain

SpecTable == InitHashTable /\ [][NextTable]_vars

\* the thread that is inside Insert keeps running: the call of line 120 is
\* made as soon as the body reaches it
SpecTableFair == SpecTable /\ WF_vars(HT_InsertAgain)

\* ------------------------------------------------------------------------
\* The ExtendibleHashTable called by several threads. A thread is
\* [pc, key, value, locks]: pc is where it is, key and value are those of
\* its Insert that has split and calls itself (NoValue otherwise), locks is
\* the number of std::scoped_lock objects alive on its stack.
\*   "idle"    outside the table
\*   "body"    past the constructor of a scoped_lock, before the body
\*   "unlock"  in Insert, past GrowLocal, before line 117
\*   "relock"  in the Insert of line 120, before its scoped_lock
\*   "return"  past the body, before the destructor of a scoped_lock
\* The body of a function is one step; the calls of one thread are in
\* program order. The map kv is not kept here.
\* ------------------------------------------------------------------------
LatchFrame == <<poolVars, aborted, flushing, ghostVars, bucket_size_, inserting,
                kv, wrote>>

\* std::mutex::unlock called by thread t while owner holds the mutex. A call
\* by a thread that does not hold it is undefined: the mutex is released
\* whoever holds it, or the call does nothing.
MutexUnlock(owner, t) == IF owner = t THEN {NoThread} ELSE {NoThread, owner}

Unlock(t) ==
  /\ \E l \in MutexUnlock(latch_, t) : latch_' = l
  /\ released' = [by |-> t, owner |-> latch_]

\* the constructor of std::scoped_lock lock(latch_), lines 77, 87 and 98
T_Lock(t) ==
  /\ thread[t].pc \in {"idle", "relock"}
  /\ latch_ = NoThread
  /\ latch_' = t
  /\ thread' = [thread EXCEPT ![t].pc = "body", ![t].locks = @ + 1]
  /\ UNCHANGED <<LatchFrame, eht, last, released>>

\* the body of Find(key), lines 78-81
T_Find(t, key) ==
  /\ thread[t].pc = "body"
  /\ thread[t].key = NoValue
  /\ thread' = [thread EXCEPT ![t].pc = "return"]
  /\ LET fnd == EHT_Find(eht, key)
     IN  last' = TableCall("find", key, fnd.value, IF fnd.found THEN "true" ELSE "false")
  /\ UNCHANGED <<LatchFrame, eht, latch_, released>>

\* the body of Remove(key), lines 89-92
T_Remove(t, key) ==
  /\ thread[t].pc = "body"
  /\ thread[t].key = NoValue
  /\ thread' = [thread EXCEPT ![t].pc = "return"]
  /\ LET r == EHT_Remove(eht, key)
     IN  /\ eht' = r.t
         /\ last' = TableCall("remove", key, NoValue, IF r.ok THEN "true" ELSE "false")
  /\ UNCHANGED <<LatchFrame, latch_, released>>

\* the body of Insert(key, value), lines 100-115
T_InsertRound(t, key, value) ==
  /\ thread[t].pc = "body"
  /\ RoundGrowsGlobal(eht, key, bucket_size_) => eht.global_depth_ < MaxDepth
  /\ LET r == InsertBody(eht, key, value, bucket_size_)
     IN  /\ eht' = r.t
         /\ thread' = [thread EXCEPT ![t] =
                         IF r.again
                         THEN [@ EXCEPT !.pc = "unlock", !.key = key, !.value = value]
                         ELSE [@ EXCEPT !.pc = "return", !.key = NoValue,
                                        !.value = NoValue]]
         /\ last' = TableCall("insert", key, value, IF r.again THEN "again" ELSE "none")
  /\ UNCHANGED <<LatchFrame, latch_, released>>

\* the call Insert(key, value) of the thread
T_Insert(t, key, value) ==
  /\ thread[t].key = NoValue
  /\ T_InsertRound(t, key, value)

\* the call Insert(key, value) of Insert itself
T_InsertAgain(t) ==
  /\ thread[t].key # NoValue
  /\ T_InsertRound(t, thread[t].key, thread[t].value)

\* latch_.unlock(), line 117, and the call of line 120
T_Unlock(t) ==
  /\ thread[t].pc = "unlock"
  /\ Unlock(t)
  /\ thread' = [thread EXCEPT ![t].pc = "relock"]
  /\ UNCHANGED <<LatchFrame, eht, last>>

\* the destructor of the innermost scoped_lock of the thread, at the end of
\* Find, Remove or Insert; the Insert that called returns next
T_Return(t) ==
  /\ thread[t].pc = "return"
  /\ Unlock(t)
  /\ thread' = [thread EXCEPT ![t].locks = @ - 1,
                              ![t].pc = IF thread[t].locks = 1 THEN "idle" ELSE "return"]
  /\ UNCHANGED <<LatchFrame, eht, last>>

NextLatch ==
  \E t \in Threads :
    \/ T_Lock(t)
    \/ \E k \in Keys : T_Find(t, k)
    \/ \E k \in Keys : T_Remove(t, k)
    \/ \E k \in Keys, v \in Values : T_Insert(t, k, v)
    \/ T_InsertAgain(t)
    \/ T_Unlock(t)
    \/ T_Return(t)

\* the threads share a table of the largest bucket size: every Insert into
\* it returns
InitLatch ==
  /\ InitCommon
  /\ replacer_ = NewReplacer(PoolSize, ReplacerK)
  /\ InitTable(MaxBucketSize)

SpecLatch == InitLatch /\ [][NextLatch]_vars

\* ------------------------------------------------------------------------
\* Properties
\* ------------------------------------------------------------------------
Resident(page_id) == EHT_Find(page_table_, page_id).found

FrameOf(page_id) == EHT_Find(page_table_, page_id).value

\* the frames the replacer holds with the evictable flag set
EvictableFrames(r) == {f \in DOMAIN r.frameinfo_map_ : GetEvictable(r, f)}

\* C1: a frame whose pin_count is greater than 0 is never chosen as the
\* victim of new_page or fetch_page: the page id it holds stays
C1_PinnedNeverEvicted ==
  [][\A f \in Frames :
       (last'.op \in {"new", "fetch"} /\ pages_[f].pin_count_ > 0)
         => pages_'[f].page_id_ = pages_[f].page_id_]_vars

\* C2: every page-table entry p -> f refers to a frame f whose page_id is p
C2_PageTableCoherent ==
  \A p \in PageIds : Resident(p) => pages_[FrameOf(p)].page_id_ = p

\* C3: once a payload b was written into page p and p unpinned with
\* dirty = true, a fetch_page(p) that returns a frame returns the buffer b
C3_RoundTrip ==
  (last.op = "fetch" /\ last.ret = "page" /\ committed[last.page_id] # NoData)
    => pages_[last.frame_id].data_ = committed[last.page_id]

\* C4: a fetch_page of a page that is not resident takes the head of the
\* free list when the free list is non-empty, and fails only when the free
\* list is empty and the replacer holds no evictable frame
C4_FetchAcquiresLikeNew ==
  [][(last'.op = "fetch" /\ ~Resident(last'.page_id))
       => IF free_list_ # <<>>
          THEN /\ last'.ret = "page"
               /\ last'.frame_id = Head(free_list_)
               /\ free_list_' = Tail(free_list_)
          ELSE (last'.ret = "nullptr") <=> (EvictableFrames(replacer_) = {})]_vars

\* C5: new_page returns none exactly when the free list is empty and the
\* replacer has no evictable frame, and then changes nothing; otherwise it
\* returns a frame with pin_count 1 that holds the fresh page id
C5_NewPageResult ==
  [][last'.op = "new"
       => /\ (last'.ret = "nullptr")
               <=> (free_list_ = <<>> /\ EvictableFrames(replacer_) = {})
          /\ last'.ret = "nullptr" => UNCHANGED poolVars
          /\ last'.ret # "nullptr"
               => /\ last'.ret = "page"
                  /\ last'.page_id = next_page_id_
                  /\ pages_'[last'.frame_id].page_id_ = next_page_id_
                  /\ pages_'[last'.frame_id].pin_count_ = 1]_vars

\* the (N+1)-th new_page on a pool whose N frames are all pinned failed
C5_Witness ==
  /\ last.op = "new" /\ last.ret = "nullptr"
  /\ next_page_id_ = PoolSize
  /\ \A f \in Frames : pages_[f].pin_count_ > 0

\* C6: the page ids returned by the successful new_page calls are
\* 0, 1, 2, ... in call order, whatever calls come in between
C6_SequentialPageIds ==
  /\ handed = [i \in 1 .. Len(handed) |-> i - 1]
  /\ next_page_id_ = Len(handed)

\* a new_page handed out an id after a page was deleted and after a new_page
\* failed
C6_Witness ==
  /\ last.op = "new" /\ last.ret = "page"
  /\ Len(handed) >= 2
  /\ deleted # {}

\* C7: unpin_page returns false and changes nothing when the page is not
\* resident or its pin_count is 0; otherwise it returns true, decrements the
\* pin_count by 1 and the dirty flag becomes (dirty before OR hint)
C7_UnpinResult ==
  [][last'.op = "unpin"
       => LET p == last'.page_id
              f == FrameOf(p)
          IN  IF ~Resident(p) \/ pages_[f].pin_count_ = 0
              THEN last'.ret = "false" /\ UNCHANGED poolVars
              ELSE /\ last'.ret = "true"
                   /\ pages_'[f].pin_count_ = pages_[f].pin_count_ - 1
                   /\ pages_'[f].is_dirty_ = (pages_[f].is_dirty_ \/ last'.is_dirty)]_vars

\* C8: delete_page returns true and changes nothing when the page is not
\* resident, false and changes nothing when it is resident and pinned, and
\* true when it is resident with pin_count 0, after which it is not resident
C8_DeleteResult ==
  [][last'.op = "delete"
       => LET p == last'.page_id
              f == FrameOf(p)
          IN  IF ~Resident(p)
              THEN last'.ret = "true" /\ UNCHANGED poolVars
              ELSE IF pages_[f].pin_count_ > 0
              THEN last'.ret = "false" /\ UNCHANGED poolVars
              ELSE /\ last'.ret = "true"
                   /\ ~EHT_Find(page_table_', p).found]_vars

\* a delete_page removed a resident, unpinned page
C8_Witness ==
  /\ last.op = "delete" /\ last.ret = "true" /\ last.frame_id # NoFrame
  /\ ~Resident(last.page_id)

\* C9: the bytes flush_page(p) writes to disk under p are the payload of
\* page p: the frame it writes from holds page p at the write
C9_FlushWritesItsPage ==
  [][(last'.op = "flush" /\ last'.ret = "true")
       => pages_[last'.frame_id].page_id_ = last'.page_id]_vars

\* the current timestamp minus the timestamp of the k-th most recent access
BackwardKDistance(r, f) ==
  LET h == GetHistory(r, f) IN r.ticks_ - h[Len(h) - r.k_ + 1]

\* C10: when at least two evictable frames have k recorded accesses and no
\* evictable frame has fewer, evict returns the evictable frame with the
\* largest backward k-distance
C10_EvictLargestKDistance ==
  [][(/\ last'.op = "evict"
      /\ Cardinality(EvictableFrames(replacer_)) >= 2
      /\ \A f \in EvictableFrames(replacer_) : Len(GetHistory(replacer_, f)) >= replacer_.k_)
       => /\ last'.ret = "true"
          /\ last'.frame_id \in EvictableFrames(replacer_)
          /\ \A f \in EvictableFrames(replacer_) :
               BackwardKDistance(replacer_, f)
                 <= BackwardKDistance(replacer_, last'.frame_id)]_vars

\* the evictable frames with fewer than k recorded accesses
ShortHistory(r) == {f \in EvictableFrames(r) : Len(GetHistory(r, f)) < r.k_}

\* C11: when some evictable frame has fewer than k recorded accesses, evict
\* returns an evictable frame with fewer than k accesses, the one among them
\* whose earliest recorded access is the oldest; an evict never returns a
\* frame that is not evictable
C11_EvictInfiniteFirst ==
  [][last'.op = "evict"
       => /\ last'.ret = "true" => last'.frame_id \in EvictableFrames(replacer_)
          /\ ShortHistory(replacer_) # {}
               => /\ last'.ret = "true"
                  /\ last'.frame_id \in ShortHistory(replacer_)
                  /\ \A f \in ShortHistory(replacer_) :
                       GetHistory(replacer_, last'.frame_id)[1]
                         <= GetHistory(replacer_, f)[1]]_vars

\* an evict chose between two evictable frames with fewer than k accesses
\* while an evictable frame with k accesses was older than both
C11_Witness ==
  /\ last.op = "evict" /\ last.ret = "true"
  /\ Cardinality(ShortHistory(replacer_)) >= 1
  /\ \E f \in EvictableFrames(replacer_) :
       /\ Len(GetHistory(replacer_, f)) = replacer_.k_
       /\ GetHistory(replacer_, f)[1] = 0
  /\ ~Known(replacer_, last.frame_id)

\* C12: as long as no precondition was broken, size() is the number of known
\* frames whose evictable flag is set; set_evictable changes size by one on a
\* transition of the flag and not otherwise; a successful evict, and a remove
\* of a known frame, decrement size by one and forget the frame; evict
\* returns none exactly when size is 0
C12_SizeCountsEvictable ==
  [][~aborted'
       => LET f == last'.frame_id
              size == LRUK_Size(replacer_)
              size1 == LRUK_Size(replacer_')
          IN  /\ size1 = Cardinality(EvictableFrames(replacer_'))
              /\ last'.op = "set_evictable"
                   => size1 = size
                        + (IF ~GetEvictable(replacer_, f) /\ last'.is_dirty THEN 1 ELSE 0)
                        - (IF GetEvictable(replacer_, f) /\ ~last'.is_dirty THEN 1 ELSE 0)
              /\ last'.op = "evict"
                   => /\ (last'.ret = "false") <=> (size = 0)
                      /\ last'.ret = "true"
                           => size1 = size - 1 /\ ~Known(replacer_', f)
              /\ (last'.op = "remove" /\ Known(replacer_, f))
                   => size1 = size - 1 /\ ~Known(replacer_', f)]_vars

\* a successful evict left one evictable frame and one frame that is not
\* evictable: size is 1
C12_Witness ==
  /\ ~aborted
  /\ last.op = "evict" /\ last.ret = "true"
  /\ LRUK_Size(replacer_) = 1
  /\ \E f \in DOMAIN replacer_.frameinfo_map_ : ~GetEvictable(replacer_, f)

\* the <<pointer, position>> pairs of the entries a table stores
Entries(t) ==
  UNION {{<<p, i>> : i \in 1 .. Len(t.buckets[p].list_)} : p \in DOMAIN t.buckets}

KeyAt(t, e) == t.buckets[e[1]].list_[e[2]][1]

\* C13: the table behaves as a map. Whenever no insert is in progress, find
\* of every key gives the value of the last insert of the key that no remove
\* followed and absence otherwise; a find call returns just that; a remove
\* returns true exactly when the key was present; no key is stored twice
C13_BehavesAsMap ==
  [][/\ \A e1, e2 \in Entries(eht') : KeyAt(eht', e1) = KeyAt(eht', e2) => e1 = e2
     /\ inserting' = NoInsert
          => /\ \A k \in Keys :
                  EHT_Find(eht', k) = [found |-> kv'[k] # NoValue, value |-> kv'[k]]
             /\ last'.op = "find"
                  => /\ (last'.ret = "true") <=> (kv[last'.page_id] # NoValue)
                     /\ last'.frame_id = kv[last'.page_id]
             /\ last'.op = "remove"
                  => (last'.ret = "true") <=> (kv[last'.page_id] # NoValue)]_vars

\* a find returned the value stored for a key in a table that holds two keys
\* or more and whose buckets were split twice
C13_Witness ==
  /\ last.op = "find" /\ last.ret = "true" /\ last.frame_id = MaxValue
  /\ eht.num_buckets_ >= 3
  /\ Cardinality({k \in Keys : kv[k] # NoValue}) >= 2

\* the directory slots, 0 .. dir_.size() - 1
Slots(t) == 0 .. (Len(t.dir_) - 1)

\* C19: the directory has 2^G slots; every bucket has a local depth L <= G;
\* the slots that refer to a bucket are exactly those that agree with one of
\* them on the low L bits; the hash of every key of the bucket has these low
\* L bits; no bucket holds more than bucket_size entries
C19_DirectoryInvariant ==
  /\ Len(eht.dir_) = Pow2(eht.global_depth_)
  /\ \A s1 \in Slots(eht) :
       LET b == BucketAt(eht, s1)
           low == Pow2(b.depth_)
       IN  /\ b.depth_ <= eht.global_depth_
           /\ \A s \in Slots(eht) :
                (eht.dir_[s + 1] = eht.dir_[s1 + 1]) <=> (s % low = s1 % low)
           /\ \A i \in 1 .. Len(b.list_) : Hash(b.list_[i][1]) % low = s1 % low
           /\ Len(b.list_) <= bucket_size_

\* after splits and a remove, a bucket of local depth 1 that holds a key is
\* referred to by two slots of a directory of global depth 2
C19_Witness ==
  /\ inserting = NoInsert
  /\ last.op = "remove" /\ last.ret = "true"
  /\ eht.global_depth_ = 2
  /\ \E s \in Slots(eht) :
       BucketAt(eht, s).depth_ = 1 /\ BucketAt(eht, s).list_ # <<>>

\* C20: an insert(k, v) on a key that is stored returns after updating the
\* value: the global depth, the local depth of every slot, the number of
\* buckets and the entries of the other keys are as before
C20_UpdateInPlace ==
  [][(/\ last'.op = "insert"
      /\ inserting = NoInsert
      /\ EHT_Find(eht, last'.page_id).found)
       => /\ inserting' = NoInsert
          /\ EHT_Find(eht', last'.page_id) = [found |-> TRUE, value |-> last'.frame_id]
          /\ eht'.global_depth_ = eht.global_depth_
          /\ eht'.num_buckets_ = eht.num_buckets_
          /\ \A sl \in Slots(eht) :
               GetLocalDepthInternal(eht', sl) = GetLocalDepthInternal(eht, sl)
          /\ \A k \in Keys \ {last'.page_id} :
               EHT_Find(eht', k) = EHT_Find(eht, k)]_vars

\* the frames of the pool
PoolFrames == DOMAIN pages_

\* the frames that hold a page
ResidentFrames == {f \in PoolFrames : pages_[f].page_id_ # INVALID_PAGE_ID}

\* C14: every frame that holds a page has pin_count >= 0, and pin_count = 0
\* exactly when the replacer holds the frame as evictable
C14_PinnedIffNotEvictable ==
  ~aborted
    => \A f \in ResidentFrames :
         /\ pages_[f].pin_count_ >= 0
         /\ (pages_[f].pin_count_ = 0) <=> (f \in EvictableFrames(replacer_))

\* C15: the free list and the frames that hold a page make up the pool, no
\* frame is listed twice in the free list, and the page table has one entry
\* for each frame that holds a page
C15_Conservation ==
  /\ Len(free_list_) + Cardinality(ResidentFrames) = Cardinality(PoolFrames)
  /\ \A i, j \in 1 .. Len(free_list_) : free_list_[i] = free_list_[j] => i = j
  /\ Cardinality(Entries(page_table_)) = Cardinality(ResidentFrames)

MappedFrames == {page_table_.buckets[e[1]].list_[e[2]][2] : e \in Entries(page_table_)}

\* C17: every frame of the free list has page_id INVALID_PAGE_ID, pin_count 0
\* and the dirty flag false, is unknown to the replacer and is the target of
\* no page-table entry
C17_FreeFramesReset ==
  \A i \in 1 .. Len(free_list_) :
    LET f == free_list_[i]
    IN  /\ pages_[f].page_id_ = INVALID_PAGE_ID
        /\ pages_[f].pin_count_ = 0
        /\ ~pages_[f].is_dirty_
        /\ ~Known(replacer_, f)
        /\ f \notin MappedFrames

\* C18: a new_page, or a fetch_page of a page that is not resident, that
\* re-uses a dirty frame writes the payload the frame held to disk under the
\* page id the frame held, and the frame is not dirty afterwards; when the
\* frame is not dirty the call writes nothing to disk
C18_WriteBackOldPage ==
  [][(/\ last'.op \in {"new", "fetch"}
      /\ last'.ret = "page"
      /\ ~Resident(last'.page_id))
       => LET f == last'.frame_id
              old == pages_[f]
          IN  IF old.is_dirty_
              THEN /\ wrote' = [page_id |-> old.page_id_, data |-> old.data_]
                   /\ disk' = [disk EXCEPT ![old.page_id_] = old.data_]
                   /\ ~pages_'[f].is_dirty_
              ELSE /\ wrote' = NoWrite
                   /\ disk' = disk]_vars

\* a call that brought a page into a frame wrote the page the frame held
\* before, a page with another id, to disk
C18_Witness ==
  /\ last.op \in {"new", "fetch"} /\ last.ret = "page"
  /\ wrote # NoWrite
  /\ wrote.page_id \notin {INVALID_PAGE_ID, last.page_id}
  /\ pages_[last.frame_id].page_id_ = last.page_id
  /\ ~pages_[last.frame_id].is_dirty_

\* the bucket of key holds key and nothing else can be added to it: the
\* test of line 102 sends Insert(key, _) to the split
KeyFillsItsBucket(t, key, size_) ==
  /\ size_ = 1
  /\ EHT_Find(t, key).found

\* a round of Insert(key, _) that starts with key alone in its full bucket
\* ends in the recursive call, with key alone in its full bucket again
SplitKeepsKeyBucketFull ==
  [][\A k \in Keys :
       (/\ KeyFillsItsBucket(eht, k, bucket_size_)
        /\ last'.op = "insert"
        /\ last'.page_id = k)
         => /\ last'.ret = "again"
            /\ inserting' # NoInsert
            /\ KeyFillsItsBucket(eht', k, bucket_size_)]_vars

\* the only rounds the bound on the global depth holds back are rounds of
\* such an Insert
DepthBoundStopsOnlyEndlessInsert ==
  (/\ inserting # NoInsert
   /\ RoundGrowsGlobal(eht, inserting.key, bucket_size_)
   /\ eht.global_depth_ >= MaxDepth)
    => KeyFillsItsBucket(eht, inserting.key, bucket_size_)

\* C21: every Insert(k, v) returns after finitely many rounds of split and
\* retry, for every bucket size and whether k is stored or not: an Insert
\* that is between two rounds eventually is not
C21_InsertTerminates == (inserting # NoInsert) ~> (inserting = NoInsert)

\* the thread is between the constructor of a scoped_lock and the end of
\* the body that runs under it
InCritical(t) == thread[t].pc \in {"body", "unlock"}

\* C22: the mutex of the table is released only by the thread that holds
\* it, and no two threads are inside the body of Find, Remove or Insert at
\* the same time, also when an Insert splits a bucket and retries
C22_LatchProtects ==
  /\ released # NoRelease => released.by = released.owner
  /\ \A t1, t2 \in Threads : (InCritical(t1) /\ InCritical(t2)) => t1 = t2

====
